---- MODULE Spec2Model ----
(***************************************************************************)
(* A model of the motofinai back office: the motor approval workflow       *)
(* (inventory/views.py), the search / filter / sort mixin (core/mixins.py) *)
(* and the payment schedule list with its summary (payments/views.py).     *)
(***************************************************************************)
EXTENDS Integers, Sequences, FiniteSets, TLC

(* ---------------------------------------------------------------- bounds *)
\* Concurrent request slots of the approval workflow.
NReq == 2
\* Longest text typed into a notes field.
MaxNoteLen == 2
\* Longest search text typed into q.
MaxQLen == 2
\* Most rows of a table.
MaxRows == 2
\* Last day the clock reaches.
MaxDay == 2
\* Most schedules handed to the summary on its own, and their largest amount.
MaxSumRows == 3
MaxAmount == 3
\* The years "now" is drawn from: the first of them, and how many.
ChartFirstYear == 2023
ChartYears == 2
\* Most parameters of the query string of a request.
MaxParams == 3

(* ------------------------------------------------------------------ text *)
\* Texts are sequences of one-character strings.
WS == {" ", "\t"}

Texts(alphabet, n) == UNION {[1..k -> alphabet] : k \in 0..n}

RECURSIVE LStrip(_)
LStrip(s) == IF s # <<>> /\ Head(s) \in WS THEN LStrip(Tail(s)) ELSE s

RECURSIVE RStrip(_)
RStrip(s) ==
    IF s # <<>> /\ s[Len(s)] \in WS THEN RStrip(SubSeq(s, 1, Len(s) - 1)) ELSE s

\* str.strip(): leading and trailing whitespace removed.
Strip(s) == RStrip(LStrip(s))

(* ----------------------------------------------------------------- state *)
VARIABLES
    motor,      \* the stored Motor row: approval_status, approved_by, approval_notes
    pc,         \* per request slot: "idle", "loaded" (row read), "done"
    post,       \* per request slot: the view requested, the user, the raw notes
    local,      \* per request slot: the Motor instance the request loaded
    response,   \* per request slot: message level and text, redirect, model call made
    nCommits    \* number of transitions saved to the Motor row

approvalVars == <<motor, pc, post, local, response, nCommits>>

VARIABLES
    view,       \* the list view served
    db,         \* the rows of its table
    today,      \* timezone.now().date(), in days
    GET,        \* the parameters of the last list request
    listed,     \* what the last request computed, when it was a list request
    json,       \* its response, when it was a request of the JSON search
    refreshes   \* the overdue refreshes run on this day: 0, 1, or 2 for more

listVars == <<view, db, today, GET, listed, json, refreshes>>

VARIABLES
    sumInput,   \* the schedule set handed to get_summary
    summarised  \* <<>> before the call, <<its result>> after it

sumVars == <<sumInput, summarised>>

VARIABLES
    now,        \* timezone.now(): year, month, day
    chartDb,    \* the schedules the chart reads, due on calendar dates
    chart_data  \* <<>> before get_chart_data, <<its result>> after it

chartVars == <<now, chartDb, chart_data>>

VARIABLES
    urlView,    \* the view whose links are built
    QUERY,      \* request.GET as it was parsed: the pairs of the query string
    sort_urls,  \* <<>> before the request is served, <<column -> sort link>> after
    built       \* <<>>, or <<the overrides and result of build_query_string>>

linkVars == <<urlView, QUERY, sort_urls, built>>

vars == <<approvalVars, listVars, sumVars, chartVars, linkVars>>

(* ------------------------------------------------------ approval workflow *)
Req == 1..NReq
Users == {"u1", "u2"}
None == "None"
NoteAlphabet == {" ", "x"}
NoteInputs == Texts(NoteAlphabet, MaxNoteLen)

NewMotor == [approval_status |-> "PENDING", approved_by |-> None, approval_notes |-> <<>>]
NoResponse == [level |-> "none", text |-> "none", redirect |-> "none", called |-> FALSE]
NoPost == [view |-> "none", user |-> None, notes |-> <<>>]

\* A mutant of GetObject: a fresh instance is built instead of reading the row.
GetObjectFresh(row) == NewMotor

\* get_object_or_404(Motor, pk=pk): the instance holds the row as stored now.
GetObject(row) == row

\* Motor.approve(approved_by, notes): valid only from PENDING, records the
\* actor and the notes, saves the instance.
Motor_approve(self, user, notes) ==
    IF self.approval_status # "PENDING"
    THEN [ok |-> FALSE, saved |-> FALSE, motor |-> self]
    ELSE [ok |-> TRUE, saved |-> TRUE,
          motor |-> [approval_status |-> "APPROVED", approved_by |-> user,
                     approval_notes |-> notes]]

\* Motor.reject(approved_by, notes): valid only from PENDING, needs notes
\* that are not blank, saves the instance.
Motor_reject(self, user, notes) ==
    IF self.approval_status # "PENDING" \/ Strip(notes) = <<>>
    THEN [ok |-> FALSE, saved |-> FALSE, motor |-> self]
    ELSE [ok |-> TRUE, saved |-> TRUE,
          motor |-> [approval_status |-> "REJECTED", approved_by |-> user,
                     approval_notes |-> notes]]

\* A mutant of MotorApproveView_post: the PENDING guard is missing.
MotorApproveView_post_NoGuard(m, row, user, raw) ==
    LET t == Motor_approve(m, user, Strip(raw)) IN
    IF t.ok
    THEN [row |-> t.motor, saved |-> TRUE, level |-> "success",
          text |-> "has been approved", redirect |-> "detail", called |-> TRUE]
    ELSE [row |-> row, saved |-> FALSE, level |-> "error",
          text |-> "Error approving motorcycle", redirect |-> "detail", called |-> TRUE]

\* MotorApproveView.post after the instance m was loaded; row is the stored row.
MotorApproveView_post(m, row, user, raw) ==
    IF m.approval_status # "PENDING"
    THEN [row |-> row, saved |-> FALSE, level |-> "error",
          text |-> "Only pending motors can be approved.", redirect |-> "detail",
          called |-> FALSE]
    ELSE LET t == Motor_approve(m, user, Strip(raw)) IN
         IF t.ok
         THEN [row |-> t.motor, saved |-> TRUE, level |-> "success",
               text |-> "has been approved", redirect |-> "detail", called |-> TRUE]
         ELSE [row |-> row, saved |-> FALSE, level |-> "error",
               text |-> "Error approving motorcycle", redirect |-> "detail",
               called |-> TRUE]

\* A mutant of MotorRejectView_post: the test for empty notes is missing.
MotorRejectView_post_NoNotesCheck(m, row, user, raw) ==
    IF m.approval_status # "PENDING"
    THEN [row |-> row, saved |-> FALSE, level |-> "error",
          text |-> "Only pending motors can be rejected.", redirect |-> "detail",
          called |-> FALSE]
    ELSE LET t == Motor_reject(m, user, Strip(raw)) IN
         IF t.ok
         THEN [row |-> t.motor, saved |-> TRUE, level |-> "warning",
               text |-> "has been rejected", redirect |-> "list", called |-> TRUE]
         ELSE [row |-> row, saved |-> FALSE, level |-> "error",
               text |-> "Error rejecting motorcycle", redirect |-> "list",
               called |-> TRUE]

\* MotorRejectView.post after the instance m was loaded; row is the stored row.
MotorRejectView_post(m, row, user, raw) ==
    IF m.approval_status # "PENDING"
    THEN [row |-> row, saved |-> FALSE, level |-> "error",
          text |-> "Only pending motors can be rejected.", redirect |-> "detail",
          called |-> FALSE]
    ELSE LET notes == Strip(raw) IN
         IF notes = <<>>
         THEN [row |-> row, saved |-> FALSE, level |-> "error",
               text |-> "Please provide a reason for rejection.",
               redirect |-> "detail", called |-> FALSE]
         ELSE LET t == Motor_reject(m, user, notes) IN
              IF t.ok
              THEN [row |-> t.motor, saved |-> TRUE, level |-> "warning",
                    text |-> "has been rejected", redirect |-> "list", called |-> TRUE]
              ELSE [row |-> row, saved |-> FALSE, level |-> "error",
                    text |-> "Error rejecting motorcycle", redirect |-> "list",
                    called |-> TRUE]

ApprovalInit ==
    /\ motor = NewMotor
    /\ pc = [r \in Req |-> "idle"]
    /\ post = [r \in Req |-> NoPost]
    /\ local = [r \in Req |-> NewMotor]
    /\ response = [r \in Req |-> NoResponse]
    /\ nCommits = 0

\* A POST arrives at slot r and the view loads the motor (first line of post).
LoadMotor(r) ==
    /\ pc[r] \in {"idle", "done"}
    /\ \E v \in {"approve", "reject"}, u \in Users, n \in NoteInputs :
          post' = [post EXCEPT ![r] = [view |-> v, user |-> u, notes |-> n]]
    /\ local' = [local EXCEPT ![r] = GetObject(motor)]
    /\ pc' = [pc EXCEPT ![r] = "loaded"]
    /\ response' = [response EXCEPT ![r] = NoResponse]
    /\ UNCHANGED <<motor, nCommits>>
    /\ UNCHANGED <<listVars, sumVars, chartVars, linkVars>>

Finish(r, out) ==
    /\ motor' = out.row
    /\ nCommits' = IF out.saved THEN nCommits + 1 ELSE nCommits
    /\ response' = [response EXCEPT ![r] =
          [level |-> out.level, text |-> out.text, redirect |-> out.redirect,
           called |-> out.called]]
    /\ pc' = [pc EXCEPT ![r] = "done"]
    \* the request and its instance are gone once the response is sent
    /\ post' = [post EXCEPT ![r] = NoPost]
    /\ local' = [local EXCEPT ![r] = NewMotor]
    /\ UNCHANGED <<listVars, sumVars, chartVars, linkVars>>

\* The rest of MotorApproveView.post: guard, approve, message, redirect.
ApprovePost(r) ==
    /\ pc[r] = "loaded"
    /\ post[r].view = "approve"
    /\ Finish(r, MotorApproveView_post(local[r], motor, post[r].user, post[r].notes))

\* The rest of MotorRejectView.post: guard, notes test, reject, message, redirect.
RejectPost(r) ==
    /\ pc[r] = "loaded"
    /\ post[r].view = "reject"
    /\ Finish(r, MotorRejectView_post(local[r], motor, post[r].user, post[r].notes))

\* Requests handled one after the other: no request starts while one is in flight.
LoadMotorSeq(r) ==
    /\ \A q \in Req : pc[q] # "loaded"
    /\ LoadMotor(r)

(* ------------------------------------------------------------ list views *)
\* Case folding of icontains.
Lower(c) == CASE c = "A" -> "a" [] c = "B" -> "b" [] c = "S" -> "s" [] OTHER -> c

LowerText(s) == [i \in 1..Len(s) |-> Lower(s[i])]

\* field__icontains=s: s occurs in text, letter case ignored.
RECURSIVE IContains(_, _)
IContains(text, s) ==
    IF Len(s) > Len(text) THEN FALSE
    ELSE IF LowerText(SubSeq(text, 1, Len(s))) = LowerText(s) THEN TRUE
    ELSE IContains(Tail(text), s)

\* Character codes and the ordering of values in ORDER BY: numbers by size,
\* texts by their characters.
Code(c) ==
    CASE c = " " -> 32 [] c = "A" -> 65 [] c = "B" -> 66 [] c = "S" -> 83
      [] c = "a" -> 97 [] c = "b" -> 98 [] c = "c" -> 99 [] c = "s" -> 115
      [] c = "t" -> 116 [] OTHER -> 120

RECURSIVE TextCmp(_, _)
TextCmp(s, t) ==
    IF s = <<>> THEN (IF t = <<>> THEN 0 ELSE -1)
    ELSE IF t = <<>> THEN 1
    ELSE IF Code(Head(s)) < Code(Head(t)) THEN -1
    ELSE IF Code(Head(s)) > Code(Head(t)) THEN 1
    ELSE TextCmp(Tail(s), Tail(t))

TextFields ==
    {"brand", "model_name", "type", "chassis_plate_number", "color", "name",
     "description",
     "loan_application__applicant_first_name", "loan_application__applicant_last_name",
     "loan_application__applicant_email"}

StatusRank(v) == CASE v = "due" -> 1 [] v = "overdue" -> 2 [] OTHER -> 3

ValueCmp(field, a, b) ==
    IF field \in TextFields THEN TextCmp(a, b)
    ELSE IF field = "status"
         THEN (IF StatusRank(a) < StatusRank(b) THEN -1
               ELSE IF StatusRank(a) > StatusRank(b) THEN 1 ELSE 0)
    ELSE IF a < b THEN -1 ELSE IF a > b THEN 1 ELSE 0

\* An ORDER BY term: 'field' ascending, '-field' descending.
Asc(f) == [field |-> f, desc |-> FALSE]
Desc(f) == [field |-> f, desc |-> TRUE]

\* The rows in the order of the ORDER BY terms: -1 when x comes first, 1 when
\* y comes first, 0 when the terms do not tell them apart.
RECURSIVE RowCmp(_, _, _)
RowCmp(x, y, order) ==
    IF order = <<>> THEN 0
    ELSE LET t == Head(order)
             c == ValueCmp(t.field, x[t.field], y[t.field])
         IN IF c = 0 THEN RowCmp(x, y, Tail(order))
            ELSE IF t.desc THEN 0 - c ELSE c

\* Rows paired with the number of rows that come before them: the list is
\* built front to back, and a row may stand at place i when fewer than i rows
\* come before it.
RECURSIVE Arrange(_, _)
Arrange(ranked, i) ==
    IF ranked = {} THEN {<<>>}
    ELSE UNION {{<<p[2]>> \o l : l \in Arrange(ranked \ {p}, i + 1)} :
                   p \in {r \in ranked : r[1] < i}}

\* The lists a queryset may evaluate to: its rows in the order of its ORDER BY;
\* the database is free in the order of rows its terms do not tell apart.
Evaluate(queryset) ==
    Arrange({<<Cardinality({y \in queryset.rows :
                               RowCmp(y, x, queryset.order) < 0}), x>> :
                x \in queryset.rows}, 1)

\* queryset.order_by(...): the ordering is replaced.
OrderBy(queryset, order) == [rows |-> queryset.rows, order |-> order]

\* queryset.filter(...): the rows the condition (a function of the row) holds of.
Filter(queryset, cond) ==
    [rows |-> {x \in queryset.rows : cond[x]}, order |-> queryset.order]

\* ---- the configuration of the views that use SearchSortFilterMixin
\* MyListView is the view of the mixin's usage note (two filter fields).
MixinViews == {"MotorListView", "StockListView", "SearchSortFilterMixin", "MyListView"}

search_fields(v) ==
    CASE v = "MotorListView" ->
            <<"brand", "model_name", "type", "chassis_plate_number", "color">>
      [] v = "StockListView" -> <<"brand", "model_name", "color">>
      [] v = "MyListView" -> <<"name", "description">>
      [] OTHER -> <<>>

filter_fields(v) ==
    CASE v = "MotorListView" -> <<"type">>
      [] v = "MyListView" -> <<"status", "type">>
      [] OTHER -> <<>>

sort_fields(v) ==
    CASE v = "MotorListView" ->
            [k \in {"name", "type", "price", "year"} |->
                CASE k = "name" -> "brand" [] k = "type" -> "type"
                  [] k = "price" -> "purchase_price" [] OTHER -> "year"]
      [] v = "StockListView" ->
            [k \in {"name", "model", "year", "available"} |->
                CASE k = "name" -> "brand" [] k = "model" -> "model_name"
                  [] k = "year" -> "year" [] OTHER -> "quantity_available"]
      [] v = "MyListView" ->
            [k \in {"name", "price", "created"} |->
                CASE k = "name" -> "name" [] k = "price" -> "purchase_price"
                  [] OTHER -> "created_at"]
      [] v = "PaymentScheduleListView" ->
            [k \in {"customer", "due_date", "amount", "status"} |->
                CASE k = "customer" -> "loan_application__applicant_last_name"
                  [] k = "due_date" -> "due_date"
                  [] k = "amount" -> "total_amount" [] OTHER -> "status"]
      [] OTHER -> [k \in {} |-> ""]

default_sort(v) ==
    CASE v = "StockListView" -> <<Asc("brand")>>
      [] OTHER -> <<Desc("created_at")>>

\* The Q object apply_search builds: field1__icontains | field2__icontains | ...
RECURSIVE QAny(_, _, _)
QAny(fields, row, s) ==
    IF fields = <<>> THEN FALSE
    ELSE IContains(row[Head(fields)], s) \/ QAny(Tail(fields), row, s)

\* SearchSortFilterMixin.apply_search
apply_search(queryset, get, v) ==
    LET search_query == Strip(get.q) IN
    IF search_query # <<>> /\ search_fields(v) # <<>>
    THEN Filter(queryset,
                [x \in queryset.rows |-> QAny(search_fields(v), x, search_query)])
    ELSE queryset

\* A mutant of FilterLoop: the supplied value is compared as typed.
RECURSIVE FilterLoopRaw(_, _, _)
FilterLoopRaw(queryset, get, fields) ==
    IF fields = <<>> THEN queryset
    ELSE LET field == Head(fields)
             value == get[field]
             eq == [x \in queryset.rows |-> x[field] = value]
         IN FilterLoopRaw(IF value # <<>> THEN Filter(queryset, eq) ELSE queryset,
                          get, Tail(fields))

\* The loop of apply_filters over the filter fields still to apply.
RECURSIVE FilterLoop(_, _, _)
FilterLoop(queryset, get, fields) ==
    IF fields = <<>> THEN queryset
    ELSE LET field == Head(fields)
             value == Strip(get[field])
             eq == [x \in queryset.rows |-> x[field] = value]
         IN FilterLoop(IF value # <<>> THEN Filter(queryset, eq) ELSE queryset,
                       get, Tail(fields))

\* SearchSortFilterMixin.apply_filters
apply_filters(queryset, get, v) == FilterLoop(queryset, get, filter_fields(v))

\* A mutant of apply_sorting: the order parameter is ignored.
apply_sorting_NoDesc(queryset, get, v) ==
    IF get.sort \in DOMAIN sort_fields(v)
    THEN OrderBy(queryset, <<Asc(sort_fields(v)[get.sort])>>)
    ELSE IF default_sort(v) # <<>> THEN OrderBy(queryset, default_sort(v))
    ELSE queryset

\* SearchSortFilterMixin.apply_sorting
apply_sorting(queryset, get, v) ==
    IF get.sort \in DOMAIN sort_fields(v)
    THEN LET field == sort_fields(v)[get.sort]
         IN OrderBy(queryset, <<IF get.order = "desc" THEN Desc(field) ELSE Asc(field)>>)
    ELSE IF default_sort(v) # <<>> THEN OrderBy(queryset, default_sort(v))
    ELSE queryset

(* -------------------------------------------------- payment schedule list *)
\* PaymentSchedule.Status
StatusChoices == {"due", "overdue", "paid"}

\* PaymentSchedule.objects.mark_overdue(reference_date): every schedule that is
\* DUE with a due date before the reference date becomes OVERDUE.
mark_overdue(rows, reference_date) ==
    {IF x.status = "due" /\ x.due_date < reference_date
     THEN [x EXCEPT !.status = "overdue"] ELSE x : x \in rows}

PaymentSearchFields ==
    <<"loan_application__applicant_first_name", "loan_application__applicant_last_name",
      "loan_application__applicant_email">>

\* A mutant of PaymentScheduleListView_get_queryset: mark_overdue is not called.
PaymentScheduleListView_get_queryset_NoRefresh(rows, reference_date, get) ==
    LET v == "PaymentScheduleListView"
        schedules == [rows |-> rows, order |-> <<Asc("due_date"), Asc("sequence")>>]
        customer_search == IF get.customer # <<>> THEN get.customer ELSE get.q
        hit == [x \in schedules.rows |-> QAny(PaymentSearchFields, x, customer_search)]
        searched == IF customer_search # <<>> THEN Filter(schedules, hit) ELSE schedules
        has_status == [x \in searched.rows |-> x.status = get.status]
        filtered == IF get.status \in StatusChoices THEN Filter(searched, has_status)
                    ELSE searched
        sorted == IF get.sort \in DOMAIN sort_fields(v)
                  THEN LET field == sort_fields(v)[get.sort]
                       IN OrderBy(filtered,
                                  <<IF get.order = "desc" THEN Desc(field) ELSE Asc(field)>>)
                  ELSE filtered
    IN [db |-> rows, base |-> schedules, afterSearch |-> searched,
        afterFilters |-> filtered, queryset |-> sorted]

\* PaymentScheduleListView.get_queryset: the overdue refresh, then the
\* schedules ordered by due date and sequence, searched by customer, filtered
\* by status and sorted.
PaymentScheduleListView_get_queryset(rows, reference_date, get) ==
    LET v == "PaymentScheduleListView"
        stored == mark_overdue(rows, reference_date)
        schedules == [rows |-> stored, order |-> <<Asc("due_date"), Asc("sequence")>>]
        customer_search == IF get.customer # <<>> THEN get.customer ELSE get.q
        hit == [x \in schedules.rows |-> QAny(PaymentSearchFields, x, customer_search)]
        searched == IF customer_search # <<>> THEN Filter(schedules, hit) ELSE schedules
        has_status == [x \in searched.rows |-> x.status = get.status]
        filtered == IF get.status \in StatusChoices THEN Filter(searched, has_status)
                    ELSE searched
        sorted == IF get.sort \in DOMAIN sort_fields(v)
                  THEN LET field == sort_fields(v)[get.sort]
                       IN OrderBy(filtered,
                                  <<IF get.order = "desc" THEN Desc(field) ELSE Asc(field)>>)
                  ELSE filtered
    IN [db |-> stored, base |-> schedules, afterSearch |-> searched,
        afterFilters |-> filtered, queryset |-> sorted]

\* SearchSortFilterMixin.get_queryset: search, filters, sorting.
SearchSortFilterMixin_get_queryset(rows, get, v) ==
    LET all == [rows |-> rows, order |-> <<>>]
        searched == apply_search(all, get, v)
        filtered == apply_filters(searched, get, v)
        sorted == apply_sorting(filtered, get, v)
    IN [db |-> rows, base |-> all, afterSearch |-> searched,
        afterFilters |-> filtered, queryset |-> sorted]

\* Sum("total_amount", filter=Q(status=...)): <<>> (NULL) when no row matches.
RECURSIVE Total(_)
Total(rows) ==
    IF rows = {} THEN 0
    ELSE LET x == CHOOSE y \in rows : TRUE IN x.total_amount + Total(rows \ {x})

SumWhere(rows, status) ==
    LET match == {x \in rows : x.status = status}
    IN IF match = {} THEN <<>> ELSE <<Total(match)>>

CountWhere(rows, status) == Cardinality({x \in rows : x.status = status})

\* aggregate or default: None and zero are both falsy.
OrDefault(agg, default) == IF agg = <<>> \/ agg[1] = 0 THEN default ELSE agg[1]

\* A mutant of RoundHalfEven: the digits after the second decimal are cut off.
RoundDown(n, d) == n \div d

\* Decimal.quantize(Decimal("0.01")) of n / d, in hundredths: ROUND_HALF_EVEN.
RoundHalfEven(n, d) ==
    LET q == n \div d
        r == n % d
    IN IF 2 * r < d THEN q
       ELSE IF 2 * r > d THEN q + 1
       ELSE IF q % 2 = 0 THEN q ELSE q + 1

\* A mutant of get_summary: the overdue total sums the DUE schedules.
get_summary_WrongOverdue(rows) ==
    LET due_total == OrDefault(SumWhere(rows, "due"), 0)
        overdue_total == OrDefault(SumWhere(rows, "due"), 0)
        paid_total == OrDefault(SumWhere(rows, "paid"), 0)
        denominator == due_total + overdue_total + paid_total
    IN [due_total |-> due_total, overdue_total |-> overdue_total,
        paid_total |-> paid_total,
        due_count |-> CountWhere(rows, "due"),
        overdue_count |-> CountWhere(rows, "overdue"),
        paid_count |-> CountWhere(rows, "paid"),
        collection_rate |-> IF denominator > 0
                            THEN RoundHalfEven(paid_total * 10000, denominator) ELSE 0,
        pending_amount |-> due_total + overdue_total,
        total_collected |-> paid_total]

\* A mutant of get_summary: the rate is taken against the pending amount.
get_summary_RateOverPending(rows) ==
    LET due_total == OrDefault(SumWhere(rows, "due"), 0)
        overdue_total == OrDefault(SumWhere(rows, "overdue"), 0)
        paid_total == OrDefault(SumWhere(rows, "paid"), 0)
        denominator == due_total + overdue_total
    IN [due_total |-> due_total, overdue_total |-> overdue_total,
        paid_total |-> paid_total,
        due_count |-> CountWhere(rows, "due"),
        overdue_count |-> CountWhere(rows, "overdue"),
        paid_count |-> CountWhere(rows, "paid"),
        collection_rate |-> IF denominator > 0
                            THEN RoundHalfEven(paid_total * 10000, denominator) ELSE 0,
        pending_amount |-> due_total + overdue_total,
        total_collected |-> paid_total]

\* PaymentScheduleListView.get_summary; amounts in cents, the rate in
\* hundredths of a percent.
get_summary(rows) ==
    LET due_total == OrDefault(SumWhere(rows, "due"), 0)
        overdue_total == OrDefault(SumWhere(rows, "overdue"), 0)
        paid_total == OrDefault(SumWhere(rows, "paid"), 0)
        denominator == due_total + overdue_total + paid_total
    IN [due_total |-> due_total, overdue_total |-> overdue_total,
        paid_total |-> paid_total,
        due_count |-> CountWhere(rows, "due"),
        overdue_count |-> CountWhere(rows, "overdue"),
        paid_count |-> CountWhere(rows, "paid"),
        collection_rate |-> IF denominator > 0
                            THEN RoundHalfEven(paid_total * 10000, denominator) ELSE 0,
        pending_amount |-> due_total + overdue_total,
        total_collected |-> paid_total]

NoSummary == get_summary({})

\* Paginator(schedules, 25)
per_page == 25

\* paginate_by of the list views; 0 where a view does not paginate.
paginate_by(v) ==
    CASE v = "PaymentScheduleListView" -> per_page
      [] v \in {"MotorListView", "StockListView"} -> 20
      [] OTHER -> 0

\* int(number): <<>> when the text is no integer.
ParseInt(text) ==
    CASE text = "0" -> <<0>> [] text = "1" -> <<1>> [] text = "2" -> <<2>>
      [] text = "3" -> <<3>> [] text = "4" -> <<4>> [] OTHER -> <<>>

\* Paginator(object_list, size).get_page(number): the first page when number
\* is no integer, the last page when it is out of range.
Paginate(object_list, size, page_number) ==
    IF size = 0
    THEN [number |-> 1, num_pages |-> 1, object_list |-> object_list]
    ELSE LET count == Len(object_list)
             hits == IF count > 1 THEN count ELSE 1
             num_pages == (hits + size - 1) \div size
             parsed == ParseInt(page_number)
             number == IF parsed = <<>> THEN 1
                       ELSE IF parsed[1] < 1 \/ parsed[1] > num_pages THEN num_pages
                       ELSE parsed[1]
             bottom == (number - 1) * size
             top == IF bottom + size >= count THEN count ELSE bottom + size
         IN [number |-> number, num_pages |-> num_pages,
             object_list |-> SubSeq(object_list, bottom + 1, top)]

Listed(r, ref, l, page_obj, summary) ==
    [served |-> TRUE, reference_date |-> ref, base |-> r.base.rows,
     afterSearch |-> r.afterSearch.rows, afterFilters |-> r.afterFilters.rows,
     order |-> r.queryset.order, object_list |-> l, page_obj |-> page_obj,
     summary |-> summary]

RowsOf(l) == {l[i] : i \in 1..Len(l)}

\* A mutant of PaymentScheduleListView_get_context_data: the summary is taken
\* over the page shown.
PaymentScheduleListView_get_context_data_PageSummary(rows, reference_date, get) ==
    LET r == PaymentScheduleListView_get_queryset(rows, reference_date, get)
    IN {[db |-> r.db,
         listed |-> Listed(r, reference_date, l, Paginate(l, per_page, get.page),
                           get_summary(RowsOf(Paginate(l, per_page, get.page).object_list)))] :
           l \in Evaluate(r.queryset)}

\* PaymentScheduleListView.get_context_data: the queryset, its page, and the
\* summary of the queryset; one outcome for each order the rows may come in.
PaymentScheduleListView_get_context_data(rows, reference_date, get) ==
    LET r == PaymentScheduleListView_get_queryset(rows, reference_date, get)
    IN {[db |-> r.db,
         listed |-> Listed(r, reference_date, l, Paginate(l, per_page, get.page),
                           get_summary(r.queryset.rows))] :
           l \in Evaluate(r.queryset)}

\* schedules[:50]
SearchLimit == 50

NoJson ==
    [served |-> FALSE, fault |-> "none", refreshed |-> FALSE, status |-> 0,
     error |-> FALSE, results |-> <<>>, count |-> 0]

\* The 400 response of the except branch.
ErrorResponse(fault, refreshed) ==
    [served |-> TRUE, fault |-> fault, refreshed |-> refreshed, status |-> 400,
     error |-> TRUE, results |-> <<>>, count |-> 0]

\* One entry of "results".
ResultOf(schedule) ==
    [id |-> schedule.id,
     customer |-> schedule.loan_application__applicant_first_name \o <<" ">>
                    \o schedule.loan_application__applicant_last_name,
     email |-> schedule.loan_application__applicant_email,
     motor |-> schedule.loan_application__motor,
     due_date |-> schedule.due_date, amount |-> schedule.total_amount,
     status |-> schedule.status]

\* The body of PaymentScheduleSearchView.get after the refresh.
SearchResponses(stored, reference_date, get, limit) ==
    LET customer_search == Strip(get.customer)
        status == Strip(get.status)
        schedules == [rows |-> stored, order |-> <<Asc("due_date"), Asc("sequence")>>]
        hit == [x \in schedules.rows |-> QAny(PaymentSearchFields, x, customer_search)]
        searched == IF customer_search # <<>> THEN Filter(schedules, hit) ELSE schedules
        has_status == [x \in searched.rows |-> <<x.status>> = status]
        filtered == IF status # <<>> /\ status \in {<<s>> : s \in StatusChoices}
                    THEN Filter(searched, has_status) ELSE searched
        \* a schedule whose loan has no motor raises AttributeError and is skipped
        Complete(schedule) == schedule.loan_application__motor # None
    IN {LET first == SubSeq(l, 1, IF Len(l) < limit THEN Len(l) ELSE limit)
            data == SelectSeq(first, Complete)
        IN [served |-> TRUE, fault |-> "none", refreshed |-> TRUE, status |-> 200,
            error |-> FALSE,
            results |-> [i \in 1..Len(data) |-> ResultOf(data[i])],
            count |-> Len(data)] :
          l \in Evaluate(filtered)}

\* A mutant of PaymentScheduleSearchView_get: the results are not limited.
PaymentScheduleSearchView_get_Unbounded(rows, reference_date, get, fault) ==
    IF fault = "refresh"
    THEN {[db |-> rows, json |-> ErrorResponse(fault, FALSE)]}
    ELSE LET stored == mark_overdue(rows, reference_date)
         IN IF fault = "query"
            THEN {[db |-> stored, json |-> ErrorResponse(fault, TRUE)]}
            ELSE {[db |-> stored, json |-> j] :
                    j \in SearchResponses(stored, reference_date, get,
                                          Cardinality(stored))}

\* A mutant of PaymentScheduleSearchView_get: the refresh is run for the day
\* after the reference date.
PaymentScheduleSearchView_get_NextDay(rows, reference_date, get, fault) ==
    IF fault = "refresh"
    THEN {[db |-> rows, json |-> ErrorResponse(fault, FALSE)]}
    ELSE LET stored == mark_overdue(rows, reference_date + 1)
         IN IF fault = "query"
            THEN {[db |-> stored, json |-> ErrorResponse(fault, TRUE)]}
            ELSE {[db |-> stored, json |-> j] :
                    j \in SearchResponses(stored, reference_date, get, SearchLimit)}

\* PaymentScheduleSearchView.get: the refresh, the search, up to 50 results;
\* any exception raised on the way (fault: by the refresh, or by the query)
\* ends in the 400 response.
PaymentScheduleSearchView_get(rows, reference_date, get, fault) ==
    IF fault = "refresh"
    THEN {[db |-> rows, json |-> ErrorResponse(fault, FALSE)]}
    ELSE LET stored == mark_overdue(rows, reference_date)
         IN IF fault = "query"
            THEN {[db |-> stored, json |-> ErrorResponse(fault, TRUE)]}
            ELSE {[db |-> stored, json |-> j] :
                    j \in SearchResponses(stored, reference_date, get, SearchLimit)}

\* ---- the tables and the request parameters drawn
MotorRow(i, brand, model_name, type, color, price, created) ==
    [id |-> i, brand |-> brand, model_name |-> model_name, type |-> type,
     chassis_plate_number |-> <<"c">>, color |-> color, purchase_price |-> price,
     year |-> 2, created_at |-> created]

MotorPool ==
    {MotorRow(1, <<"A", "b">>, <<"c">>, <<"s">>, <<"c">>, 30, 1),
     MotorRow(2, <<"c">>, <<"b", "a">>, <<"t">>, <<"c">>, 10, 2),
     MotorRow(3, <<"c">>, <<"c">>, <<"s">>, <<"a">>, 10, 3),
     MotorRow(4, <<"b">>, <<"c">>, <<"S">>, <<"c">>, 20, 4)}

MyRow(i, name, status, type, price) ==
    [id |-> i, name |-> name, description |-> <<"c">>, status |-> status,
     type |-> type, purchase_price |-> price, created_at |-> i]

MyPool ==
    {MyRow(1, <<"a">>, <<"n">>, <<"s">>, 10),
     MyRow(2, <<"c">>, <<"n">>, <<"t">>, 20),
     MyRow(3, <<"c">>, <<"u">>, <<"s">>, 30)}

StockRow(i, brand, model_name, color, available) ==
    [id |-> i, brand |-> brand, model_name |-> model_name, color |-> color,
     year |-> 2, quantity_available |-> available]

StockPool ==
    {StockRow(1, <<"b">>, <<"a", "B">>, <<"c">>, 5),
     StockRow(2, <<"A">>, <<"c">>, <<"c">>, 0),
     StockRow(3, <<"c">>, <<"c">>, <<"c">>, 5)}

ScheduleRow(i, first, last, email, display_name, due, seq, amount, status) ==
    [id |-> i, loan_application__applicant_first_name |-> first,
     loan_application__applicant_last_name |-> last,
     loan_application__applicant_email |-> email,
     loan_application__motor |-> display_name,
     due_date |-> due, sequence |-> seq, total_amount |-> amount, status |-> status]

SchedulePool ==
    {ScheduleRow(1, <<"A", "b">>, <<"c">>, <<"c">>, "m1", 1, 1, 10000, "due"),
     ScheduleRow(2, <<"c">>, <<"b", " ", "a">>, <<"c">>, "m1", 2, 1, 5000, "due"),
     ScheduleRow(3, <<"c">>, <<"b">>, <<"a">>, "m2", 2, 2, 5000, "paid"),
     ScheduleRow(4, <<"c">>, <<"c">>, <<"c">>, None, 1, 2, 2500, "overdue")}

\* A table with more schedules than the search returns: the instalments of
\* two customers, every third one paid, one of a loan without a motor.
LargeTable ==
    {ScheduleRow(100 + i, <<"c">>, IF i % 2 = 1 THEN <<"a">> ELSE <<"c">>, <<"c">>,
                 IF i = 7 THEN None ELSE "m1",
                 1 + ((i + 1) % 3), i, 100 * i, IF i % 3 = 0 THEN "paid" ELSE "due") :
        i \in 1..(SearchLimit + 2)}

Views == MixinViews \cup {"PaymentScheduleListView"}

Pool(v) ==
    CASE v = "StockListView" -> StockPool
      [] v = "MyListView" -> MyPool
      [] v = "PaymentScheduleListView" -> SchedulePool
      [] OTHER -> MotorPool

QAlphabet == {" ", "a", "B"}
QInputs == Texts(QAlphabet, MaxQLen)
TypeInputs == {<<>>, <<" ">>, <<"s">>, <<"s", " ">>, <<"t">>}
MyStatusInputs == {<<>>, <<" ", "n">>, <<"u">>}
MyTypeInputs == {<<>>, <<"s">>, <<"t">>}
MyQInputs == {<<>>, <<"A">>}
CustomerInputs == {<<>>, <<"B">>}
StatusInputs == {"", "due", "bogus"}
OrderInputs == {"asc", "desc", "up"}

SortInputs(v) ==
    CASE v = "MotorListView" -> {"", "name", "price", "bogus"}
      [] v = "StockListView" -> {"", "name", "available", "bogus"}
      [] v = "MyListView" -> {"", "price"}
      [] v = "PaymentScheduleListView" -> {"", "amount", "bogus"}
      [] OTHER -> {"", "name"}

PageInputs == {"", "3", "0", "x"}

NoGET == [q |-> <<>>, customer |-> <<>>, type |-> <<>>, status |-> "",
          sort |-> "", order |-> "asc", page |-> ""]

NotListed ==
    [served |-> FALSE, reference_date |-> 0, base |-> {}, afterSearch |-> {},
     afterFilters |-> {}, order |-> <<>>, object_list |-> <<>>, page_obj |-> <<>>,
     summary |-> NoSummary]

ListIdle ==
    /\ view = "SearchSortFilterMixin"
    /\ db = {}
    /\ today = 1
    /\ GET = NoGET
    /\ listed = NotListed
    /\ json = NoJson
    /\ refreshes = 0

ListInit ==
    /\ view \in Views
    /\ db \in {S \in SUBSET Pool(view) : Cardinality(S) <= MaxRows}
    /\ today = 1
    /\ GET = NoGET
    /\ listed = NotListed
    /\ json = NoJson
    /\ refreshes = 0

\* The payment schedules: no schedule, the four of the pool, or the large table.
PaymentsInit ==
    /\ view = "PaymentScheduleListView"
    /\ db \in {{}, SchedulePool, LargeTable}
    /\ today = 1
    /\ GET = NoGET
    /\ listed = NotListed
    /\ json = NoJson
    /\ refreshes = 0

\* The requests made to a table of more than MaxRows rows: they differ in the
\* page asked for.
LargeRequests ==
    {[q |-> q, customer |-> <<>>, type |-> <<>>, status |-> status,
      sort |-> by.sort, order |-> by.order, page |-> page] :
        q \in {<<>>, <<"a">>}, status \in {"", "due"},
        by \in {[sort |-> "", order |-> "asc"], [sort |-> "amount", order |-> "desc"]},
        page \in PageInputs}

\* The parameters a request may carry: any within the bounds for the first
\* request, the same again (the page reloaded) for the later ones; a table of
\* more than MaxRows rows is reloaded at any of its pages.
Requests(v) ==
    IF Cardinality(db) > MaxRows
    THEN (IF listed.served THEN {[GET EXCEPT !.page = page] : page \in PageInputs}
          ELSE LargeRequests)
    ELSE IF listed.served THEN {GET}
    ELSE {[q |-> q, customer |-> customer, type |-> type, status |-> status,
           sort |-> sort, order |-> order, page |-> ""] :
            q \in (IF v = "MyListView" THEN MyQInputs ELSE QInputs),
            sort \in SortInputs(v),
            order \in (IF v = "MyListView" THEN {"desc"} ELSE OrderInputs),
            type \in (CASE v = "MotorListView" -> TypeInputs
                        [] v = "MyListView" -> MyTypeInputs
                        [] OTHER -> {<<>>}),
            customer \in (IF v = "PaymentScheduleListView" THEN CustomerInputs
                          ELSE {<<>>}),
            status \in (CASE v = "PaymentScheduleListView" -> StatusInputs
                          [] v = "MyListView" -> MyStatusInputs
                          [] OTHER -> {""})}

\* A GET of a view that uses SearchSortFilterMixin: ListView.get with the
\* mixin's get_queryset.
MixinListRequest ==
    /\ view \in MixinViews
    /\ \E get \in Requests(view) :
          LET r == SearchSortFilterMixin_get_queryset(db, get, view)
          IN /\ GET' = get
             /\ \E l \in Evaluate(r.queryset) :
                   listed' = Listed(r, today, l,
                                    Paginate(l, paginate_by(view), get.page), NoSummary)
    /\ UNCHANGED <<view, db, today, json, refreshes>>
    /\ UNCHANGED <<approvalVars, sumVars, chartVars, linkVars>>

\* A GET of the payment schedule list: get_context_data with get_queryset
\* and get_summary over the schedules.
PaymentListRequest ==
    /\ view = "PaymentScheduleListView"
    /\ \E get \in Requests(view) :
          \E out \in PaymentScheduleListView_get_context_data(db, today, get) :
             /\ GET' = get
             /\ db' = out.db
             /\ listed' = out.listed
    /\ json' = NoJson
    /\ refreshes' = IF refreshes < 2 THEN refreshes + 1 ELSE refreshes
    /\ UNCHANGED <<view, today>>
    /\ UNCHANGED <<approvalVars, sumVars, chartVars, linkVars>>

\* A day passes.
Tick ==
    /\ view = "PaymentScheduleListView"
    /\ today < MaxDay
    /\ today' = today + 1
    /\ refreshes' = 0
    /\ UNCHANGED <<view, db, GET, listed, json>>
    /\ UNCHANGED <<approvalVars, sumVars, chartVars, linkVars>>

\* The parameters of a search request.
SearchInputs ==
    {[customer |-> customer, status |-> status] :
        customer \in {<<>>, <<" ", "a">>},
        status \in {<<>>, <<" ", "due">>, <<"bogus">>}}

\* Where a search request fails: nowhere, in the refresh, in the query.
Faults == {"none", "refresh", "query"}

\* The search requests made: each of the inputs without a failure, and one
\* request for each failure.
SearchCalls ==
    {[get |-> get, fault |-> "none"] : get \in SearchInputs}
    \cup {[get |-> [customer |-> <<>>, status |-> <<>>], fault |-> fault] :
            fault \in Faults}

\* A GET of the JSON search of the payment schedules.
SearchRequest ==
    /\ view = "PaymentScheduleListView"
    /\ \E call \in SearchCalls :
          \E out \in PaymentScheduleSearchView_get(db, today, call.get, call.fault) :
             /\ db' = out.db
             /\ json' = out.json
             /\ refreshes' = IF out.json.refreshed /\ refreshes < 2
                              THEN refreshes + 1 ELSE refreshes
    /\ GET' = NoGET
    /\ listed' = NotListed
    /\ UNCHANGED <<view, today>>
    /\ UNCHANGED <<approvalVars, sumVars, chartVars, linkVars>>

(* ---------------------------------------------------- summary, on its own *)

SumIdle ==
    /\ sumInput = {}
    /\ summarised = <<>>

SumInit ==
    /\ \E k \in 0..MaxSumRows :
          \E amount \in [1..k -> 0..MaxAmount], status \in [1..k -> StatusChoices] :
             sumInput = {[id |-> i, total_amount |-> amount[i], status |-> status[i]] :
                          i \in 1..k}
    /\ summarised = <<>>

\* get_summary(schedules)
Summarise ==
    /\ summarised = <<>>
    /\ summarised' = <<get_summary(sumInput)>>
    /\ UNCHANGED sumInput
    /\ UNCHANGED <<approvalVars, listVars, chartVars, linkVars>>


(* ------------------------------------------------------------------ chart *)
\* The calendar: calendar.monthrange, date ordinals and timedelta.
IsLeap(y) == (y % 4 = 0 /\ y % 100 # 0) \/ y % 400 = 0

\* monthrange(year, month)[1]
DaysInMonth(y, mo) ==
    IF mo = 2 THEN (IF IsLeap(y) THEN 29 ELSE 28)
    ELSE IF mo \in {4, 6, 9, 11} THEN 30 ELSE 31

YearDays(y) == IF IsLeap(y) THEN 366 ELSE 365

\* Dates are counted from 1 January of the year before the first year drawn.
BaseYear == ChartFirstYear - 1
LastYear == ChartFirstYear + ChartYears - 1

RECURSIVE DaysBeforeYear(_)
DaysBeforeYear(y) ==
    IF y <= BaseYear THEN 0 ELSE DaysBeforeYear(y - 1) + YearDays(y - 1)

RECURSIVE DaysBeforeMonth(_, _)
DaysBeforeMonth(y, mo) ==
    IF mo = 1 THEN 0 ELSE DaysBeforeMonth(y, mo - 1) + DaysInMonth(y, mo - 1)

Date(y, mo, d) == [year |-> y, month |-> mo, day |-> d]

ToOrdinal(date) ==
    DaysBeforeYear(date.year) + DaysBeforeMonth(date.year, date.month) + date.day

FromOrdinal(n) ==
    LET y == CHOOSE yy \in BaseYear..LastYear :
                 DaysBeforeYear(yy) < n /\ n <= DaysBeforeYear(yy) + YearDays(yy)
        inYear == n - DaysBeforeYear(y)
        mo == CHOOSE mm \in 1..12 :
                 /\ DaysBeforeMonth(y, mm) < inYear
                 /\ inYear <= DaysBeforeMonth(y, mm) + DaysInMonth(y, mm)
    IN Date(y, mo, inYear - DaysBeforeMonth(y, mo))

\* date - timedelta(days=days)
MinusDays(date, days) == FromOrdinal(ToOrdinal(date) - days)

\* strftime('%b')
MonthAbbr(mo) ==
    <<"Jan", "Feb", "Mar", "Apr", "May", "Jun",
      "Jul", "Aug", "Sep", "Oct", "Nov", "Dec">>[mo]

\* One pass of the loop of get_chart_data, for i = 5, 4, ..., 0: the month of
\* now - 30 * i days, its first and last day, and the totals of the schedules
\* due in between.
ChartBucket(at, rows, i) ==
    LET month_date == MinusDays(at, 30 * i)
        month_start == [month_date EXCEPT !.day = 1]
        last_day == DaysInMonth(month_date.year, month_date.month)
        month_end == [month_date EXCEPT !.day = last_day]
        month_schedules ==
            {x \in rows : /\ ToOrdinal(x.due_date) >= ToOrdinal(month_start)
                          /\ ToOrdinal(x.due_date) <= ToOrdinal(month_end)}
        collected == Total({x \in month_schedules : x.status = "paid"})
        pending == Total({x \in month_schedules : x.status # "paid"})
        total == collected + pending
        rate == IF total > 0 THEN RoundHalfEven(collected * 10000, total) ELSE 0
    IN [month |-> MonthAbbr(month_date.month), month_start |-> month_start,
        month_end |-> month_end, collected |-> collected, pending |-> pending,
        rate |-> rate]

\* PaymentScheduleListView.get_chart_data: the two series, oldest month first,
\* and the bounds of the months they were computed over.
get_chart_data(at, rows) ==
    LET b == [k \in 1..6 |-> ChartBucket(at, rows, 6 - k)]
    IN [months_data |-> [k \in 1..6 |-> [month |-> b[k].month,
                                          collected |-> b[k].collected,
                                          pending |-> b[k].pending]],
        collection_rates |-> [k \in 1..6 |-> [month |-> b[k].month, rate |-> b[k].rate]],
        buckets |-> [k \in 1..6 |-> [month_start |-> b[k].month_start,
                                      month_end |-> b[k].month_end]]]

ChartRow(i, due, amount, status) ==
    [id |-> i, due_date |-> due, total_amount |-> amount, status |-> status]

\* Schedules due at the end of January and in the middle of March.
ChartPool ==
    {ChartRow(1, Date(ChartFirstYear, 1, 31), 10000, "paid"),
     ChartRow(2, Date(ChartFirstYear, 3, 15), 5000, "due")}

NowInputs ==
    {Date(y, mo, d) : y \in ChartFirstYear..LastYear, mo \in 1..12, d \in 1..31}

ChartIdle ==
    /\ now = Date(ChartFirstYear, 1, 1)
    /\ chartDb = {}
    /\ chart_data = <<>>

ChartInit ==
    /\ now \in {d \in NowInputs : d.day <= DaysInMonth(d.year, d.month)}
    /\ chartDb \in {{}, ChartPool}
    /\ chart_data = <<>>

\* get_chart_data()
BuildChart ==
    /\ chart_data = <<>>
    /\ chart_data' = <<get_chart_data(now, chartDb)>>
    /\ UNCHANGED <<now, chartDb>>
    /\ UNCHANGED <<approvalVars, listVars, sumVars, linkVars>>

(* ------------------------------------------------------------------ links *)
\* A query string is a sequence of tokens: the characters "&" and "=", the
\* characters of a typed text, and names ("sort", "name", "asc") as one token
\* each. A parameter is a pair k, v of token sequences.
Param(k, v) == [k |-> k, v |-> v]

RECURSIVE SplitOn(_, _)
SplitOn(s, sep) ==
    LET at == {i \in 1..Len(s) : s[i] = sep}
    IN IF at = {} THEN <<s>>
       ELSE LET i == CHOOSE j \in at : \A l \in at : j <= l
            IN <<SubSeq(s, 1, i - 1)>> \o SplitOn(SubSeq(s, i + 1, Len(s)), sep)

\* name=value split at the first "="; a part without "=" has a blank value.
ParsePair(part) ==
    LET at == {i \in 1..Len(part) : part[i] = "="}
    IN IF at = {} THEN Param(part, <<>>)
       ELSE LET i == CHOOSE j \in at : \A l \in at : j <= l
            IN Param(SubSeq(part, 1, i - 1), SubSeq(part, i + 1, Len(part)))

\* request.GET of a request with this query string: QueryDict splits at "&",
\* skips empty parts and keeps blank values.
QueryDict(query_string) ==
    LET NotEmpty(part) == part # <<>>
        parts == SelectSeq(SplitOn(query_string, "&"), NotEmpty)
    IN [i \in 1..Len(parts) |-> ParsePair(parts[i])]

\* request.GET.get(key, default): the last value given for the key.
QueryGet(qd, key, default) ==
    LET at == {i \in 1..Len(qd) : qd[i].k = key}
    IN IF at = {} THEN default
       ELSE qd[CHOOSE j \in at : \A l \in at : j >= l].v

\* The keys of request.GET, each once, in the order they first occur.
RECURSIVE QueryKeys(_)
QueryKeys(qd) ==
    IF qd = <<>> THEN <<>>
    ELSE LET rest == QueryKeys(SubSeq(qd, 1, Len(qd) - 1))
             key == qd[Len(qd)].k
         IN IF \E i \in 1..Len(rest) : rest[i] = key THEN rest ELSE Append(rest, key)

\* request.GET.getlist(key)
QueryGetList(qd, key) ==
    LET HasKey(p) == p.k = key
        hits == SelectSeq(qd, HasKey)
    IN [i \in 1..Len(hits) |-> hits[i].v]

\* dict(request.GET): key -> list of its values
DictOfQuery(qd) ==
    LET keys == QueryKeys(qd)
    IN [i \in 1..Len(keys) |-> Param(keys[i], QueryGetList(qd, keys[i]))]

\* params[key] = value: in place when the key is there, at the end when not.
SetItem(params, key, value) ==
    IF \E i \in 1..Len(params) : params[i].k = key
    THEN [i \in 1..Len(params) |->
             IF params[i].k = key THEN Param(key, value) ELSE params[i]]
    ELSE Append(params, Param(key, value))

\* '&'.join(f'{k}={v}' ...)
RECURSIVE JoinParams(_)
JoinParams(params) ==
    IF params = <<>> THEN <<>>
    ELSE LET first == Head(params).k \o <<"=">> \o Head(params).v
         IN IF Len(params) = 1 THEN first
            ELSE first \o <<"&">> \o JoinParams(Tail(params))

\* A mutant of get_sort_url: the order is never turned round.
get_sort_url_AlwaysAsc(qd, field) ==
    LET params == SetItem(SetItem(DictOfQuery(qd), <<"sort">>, <<<<field>>>>),
                          <<"order">>, <<<<"asc">>>>)
        Given(p) == p.v # <<>> /\ p.v[1] # <<>>
        kept == SelectSeq(params, Given)
    IN JoinParams([i \in 1..Len(kept) |-> Param(kept[i].k, kept[i].v[1])])

\* get_sort_url(field) of the get_context_data of MotorListView, StockListView
\* and PaymentScheduleListView.
get_sort_url(qd, field) ==
    LET current_sort == QueryGet(qd, <<"sort">>, <<>>)
        current_order == QueryGet(qd, <<"order">>, <<"asc">>)
        new_order == IF current_sort = <<field>> /\ current_order = <<"asc">>
                     THEN "desc" ELSE "asc"
        params == SetItem(SetItem(DictOfQuery(qd), <<"sort">>, <<<<field>>>>),
                          <<"order">>, <<<<new_order>>>>)
        Given(p) == p.v # <<>> /\ p.v[1] # <<>>
        kept == SelectSeq(params, Given)
    IN JoinParams([i \in 1..Len(kept) |-> Param(kept[i].k, kept[i].v[1])])

\* The sort_url_<column> entries of the context.
SortUrls(v, qd) == [c \in DOMAIN sort_fields(v) |-> get_sort_url(qd, c)]

\* params.update(overrides)
RECURSIVE Update(_, _)
Update(params, overrides) ==
    IF overrides = <<>> THEN params
    ELSE Update(SetItem(params, Head(overrides).k, Head(overrides).v), Tail(overrides))

\* A mutant of build_query_string: empty values are not removed.
build_query_string_KeepEmpty(v, qd, overrides) ==
    LET base == <<Param(<<"q">>, QueryGet(qd, <<"q">>, <<>>)),
                  Param(<<"sort">>, QueryGet(qd, <<"sort">>, <<>>)),
                  Param(<<"order">>, QueryGet(qd, <<"order">>, <<>>))>>
        filters == [i \in 1..Len(filter_fields(v)) |->
                       Param(<<filter_fields(v)[i]>>,
                             QueryGet(qd, <<filter_fields(v)[i]>>, <<>>))]
        params == Update(base \o filters, overrides)
    IN IF params # <<>> THEN <<"?">> \o JoinParams(params) ELSE <<>>

\* SearchSortFilterMixin.build_query_string(**overrides)
build_query_string(v, qd, overrides) ==
    LET base == <<Param(<<"q">>, QueryGet(qd, <<"q">>, <<>>)),
                  Param(<<"sort">>, QueryGet(qd, <<"sort">>, <<>>)),
                  Param(<<"order">>, QueryGet(qd, <<"order">>, <<>>))>>
        filters == [i \in 1..Len(filter_fields(v)) |->
                       Param(<<filter_fields(v)[i]>>,
                             QueryGet(qd, <<filter_fields(v)[i]>>, <<>>))]
        NotEmpty(p) == p.v # <<>>
        params == SelectSeq(Update(base \o filters, overrides), NotEmpty)
    IN IF params # <<>> THEN <<"?">> \o JoinParams(params) ELSE <<>>

\* ---- the requests and overrides drawn
LinkViews == {"MotorListView", "PaymentScheduleListView"}

\* The parameters a first request is made of.
ParamInputs(v) ==
    {Param(<<"q">>, <<"a">>), Param(<<"q">>, <<"a", "&", "b">>), Param(<<"q">>, <<>>),
     Param(<<"sort">>, <<IF v = "MotorListView" THEN "name" ELSE "amount">>),
     Param(<<"order">>, <<"asc">>), Param(<<"order">>, <<"desc">>),
     Param(<<"order">>, <<"up">>),
     Param(<<IF v = "MotorListView" THEN "type" ELSE "status">>, <<"s">>)}

QueryInputs(v) == UNION {[1..n -> ParamInputs(v)] : n \in 0..MaxParams}

\* The keyword arguments build_query_string is called with.
OverrideInputs ==
    {<<>>,
     <<Param(<<"sort">>, <<"price">>)>>,
     <<Param(<<"q">>, <<>>)>>,
     <<Param(<<"sort">>, <<>>), Param(<<"order">>, <<>>)>>,
     <<Param(<<"page">>, <<"2">>)>>,
     <<Param(<<"type">>, <<"t">>), Param(<<"q">>, <<"B">>)>>}

LinkIdle ==
    /\ urlView = "MotorListView"
    /\ QUERY = <<>>
    /\ sort_urls = <<>>
    /\ built = <<>>

LinkInit ==
    /\ urlView \in LinkViews
    /\ QUERY \in QueryInputs(urlView)
    /\ sort_urls = <<>>
    /\ built = <<>>

\* The first request is served: get_context_data builds the sort links.
SortLinksRequest ==
    /\ sort_urls = <<>>
    /\ sort_urls' = <<SortUrls(urlView, QUERY)>>
    /\ UNCHANGED <<urlView, QUERY, built>>
    /\ UNCHANGED <<approvalVars, listVars, sumVars, chartVars>>

\* The link of a column is followed: the request carries the link as its
\* query string, and get_context_data builds the links of the new page.
FollowSortLink ==
    /\ sort_urls # <<>>
    /\ \E c \in DOMAIN sort_fields(urlView) :
          /\ QUERY' = QueryDict(sort_urls[1][c])
          /\ sort_urls' = <<SortUrls(urlView, QueryDict(sort_urls[1][c]))>>
    /\ built' = <<>>
    /\ UNCHANGED urlView
    /\ UNCHANGED <<approvalVars, listVars, sumVars, chartVars>>

\* build_query_string(**overrides) is called while the request is served.
BuildQueryString ==
    /\ urlView \in MixinViews
    /\ sort_urls # <<>>
    /\ \E overrides \in OverrideInputs :
          built' = <<[overrides |-> overrides,
                      url |-> build_query_string(urlView, QUERY, overrides)]>>
    /\ UNCHANGED <<urlView, QUERY, sort_urls>>
    /\ UNCHANGED <<approvalVars, listVars, sumVars, chartVars>>

(* --------------------------------------------------------- specifications *)
NextSeq == \E r \in Req : LoadMotorSeq(r) \/ ApprovePost(r) \/ RejectPost(r)

NextConc == \E r \in Req : LoadMotor(r) \/ ApprovePost(r) \/ RejectPost(r)

NextList == MixinListRequest \/ PaymentListRequest \/ Tick

NextSummary == Summarise

NextPayments == PaymentListRequest \/ SearchRequest \/ Tick

NextChart == BuildChart

NextLinks == SortLinksRequest \/ FollowSortLink \/ BuildQueryString

InitApproval == ApprovalInit /\ ListIdle /\ SumIdle /\ ChartIdle /\ LinkIdle

InitList == ListInit /\ ApprovalInit /\ SumIdle /\ ChartIdle /\ LinkIdle

InitSummary == SumInit /\ ApprovalInit /\ ListIdle /\ ChartIdle /\ LinkIdle

InitChart == ChartInit /\ ApprovalInit /\ ListIdle /\ SumIdle /\ LinkIdle

\* Sequential handling of approve and reject requests.
SpecSeq == InitApproval /\ [][NextSeq]_vars

\* Concurrent handling: the load and the rest of a handler interleave.
SpecConc == InitApproval /\ [][NextConc]_vars

\* The list views over tables of up to MaxRows rows.
SpecList == InitList /\ [][NextList]_vars

\* get_summary applied to every schedule set within the bounds.
SpecSummary == InitSummary /\ [][NextSummary]_vars

InitPayments == PaymentsInit /\ ApprovalInit /\ SumIdle /\ ChartIdle /\ LinkIdle

\* The list and the JSON search of the payment schedules.
SpecPayments == InitPayments /\ [][NextPayments]_vars

InitLinks == LinkInit /\ ApprovalInit /\ ListIdle /\ SumIdle /\ ChartIdle

\* The sort links of the list views, followed, and build_query_string.
SpecLinks == InitLinks /\ [][NextLinks]_vars

\* get_chart_data at every "now" of the years drawn.
SpecChart == InitChart /\ [][NextChart]_vars

(* ------------------------------------------------- approval workflow claims *)
OnlyPendingText(posted) ==
    IF posted = "approve" THEN "Only pending motors can be approved."
    ELSE "Only pending motors can be rejected."

Blank(s) == \A i \in 1..Len(s) : s[i] \in WS

\* C1: a request on a motor that is not PENDING changes nothing of the stored
\* row (status, approver, notes) and ends with the "only pending" error message
\* and a redirect to the motor's approval page.
C1_NonPendingNoMutation ==
    [][\A r \in Req :
          (pc[r] = "loaded" /\ pc'[r] = "done" /\ motor.approval_status # "PENDING")
          => /\ motor' = motor
             /\ response'[r].level = "error"
             /\ response'[r].text = OnlyPendingText(post[r].view)
             /\ response'[r].redirect = "detail"]_vars

\* An approve succeeded and a second approve ended with the error.
C1_Witness ==
    /\ motor.approval_status = "APPROVED"
    /\ nCommits = 1
    /\ \E r \in Req : /\ pc[r] = "done"
                      /\ response[r].text = "Only pending motors can be approved."

\* C2: a reject request on a PENDING motor with empty or whitespace-only notes
\* ends with an error, leaves the row as it was (status PENDING) and never
\* calls Motor.reject.
C2_BlankRejectRefused ==
    [][\A r \in Req :
          (/\ pc[r] = "loaded" /\ pc'[r] = "done"
           /\ post[r].view = "reject"
           /\ motor.approval_status = "PENDING"
           /\ Blank(post[r].notes))
          => /\ motor' = motor
             /\ motor'.approval_status = "PENDING"
             /\ response'[r].level = "error"
             /\ ~response'[r].called]_vars

\* A reject with blank notes was refused and the motor is still PENDING.
C2_Witness ==
    /\ motor.approval_status = "PENDING"
    /\ \E r \in Req : /\ pc[r] = "done"
                      /\ response[r].text = "Please provide a reason for rejection."

\* C3: with requests handled one after the other, the status changes only from
\* PENDING, and only to APPROVED or REJECTED: both are terminal.
C3_TerminalStates ==
    [][motor'.approval_status # motor.approval_status
       => /\ motor.approval_status = "PENDING"
          /\ motor'.approval_status \in {"APPROVED", "REJECTED"}]_vars

\* A rejected motor received a later approve request, which was refused.
C3_Witness ==
    /\ motor.approval_status = "REJECTED"
    /\ \E r \in Req : /\ pc[r] = "done"
                      /\ response[r].text = "Only pending motors can be approved."

\* C4: of the requests racing on one PENDING motor at most one saves a
\* transition.
C4_AtMostOneCommit == nCommits <= 1

(* --------------------------------------------------------- list view claims *)
\* A text without its leading and trailing whitespace.
Trimmed(raw) ==
    LET solid == {i \in 1..Len(raw) : raw[i] \notin WS}
    IN IF solid = {} THEN <<>>
       ELSE SubSeq(raw, CHOOSE i \in solid : \A j \in solid : i <= j,
                        CHOOSE i \in solid : \A j \in solid : i >= j)

\* s occurs in text, letter case ignored.
SubstringCI(text, s) ==
    \E k \in 0..(Len(text) - Len(s)) :
        \A i \in 1..Len(s) : Lower(text[k + i]) = Lower(s[i])

IsPaymentList == view = "PaymentScheduleListView"

\* The search text of the request and the fields searched.
SearchText == IF IsPaymentList /\ GET.customer # <<>> THEN GET.customer ELSE GET.q
SearchedFields == IF IsPaymentList THEN PaymentSearchFields ELSE search_fields(view)

SearchRule ==
    LET s == Trimmed(SearchText)
    IN /\ listed.afterSearch \subseteq listed.base
       /\ IF s # <<>> /\ SearchedFields # <<>>
          THEN listed.afterSearch =
                  {x \in listed.base :
                      \E i \in 1..Len(SearchedFields) : SubstringCI(x[SearchedFields[i]], s)}
          ELSE listed.afterSearch = listed.base

\* C5: the search step returns a subset of its input; with a search text that
\* is not empty after trimming, and searchable fields, it keeps exactly the
\* rows with the text, letter case ignored, in one of the fields; otherwise it
\* returns its input.
C5_SearchRule == listed.served => SearchRule

\* The search step of the views that use the mixin follows the rule of C5.
MixinSearchRule == (listed.served /\ view \in MixinViews) => SearchRule

KeptAsTyped(x) ==
    \A i \in 1..Len(filter_fields(view)) :
        LET field == filter_fields(view)[i]
        IN GET[field] # <<>> => x[field] = GET[field]

KeptTrimmed(x) ==
    \A i \in 1..Len(filter_fields(view)) :
        LET field == filter_fields(view)[i]
        IN Trimmed(GET[field]) # <<>> => x[field] = Trimmed(GET[field])

\* C6 as claimed: a row is kept iff each filter field with a non-empty value
\* equals the value as supplied.
C6_FilterRuleAsTyped ==
    (listed.served /\ view \in MixinViews)
    => listed.afterFilters = {x \in listed.afterSearch : KeptAsTyped(x)}

\* C6, amended: a row is kept iff each filter field whose supplied value is not
\* empty after trimming equals the trimmed value; filtering the result again
\* with the same values changes nothing.
C6_FilterRule ==
    (listed.served /\ view \in MixinViews)
    => /\ listed.afterFilters = {x \in listed.afterSearch : KeptTrimmed(x)}
       /\ apply_filters([rows |-> listed.afterFilters, order |-> <<>>], GET, view).rows
             = listed.afterFilters

\* Two filter fields are applied together, one of them supplied with padding.
C6_Witness ==
    /\ listed.served /\ view = "MyListView"
    /\ GET.status = <<" ", "n">> /\ GET.type = <<"s">>
    /\ Cardinality(listed.afterSearch) = 2
    /\ Cardinality(listed.afterFilters) = 1

\* The order the schedules and the mixin's views fall back to.
DefaultOrdering ==
    CASE IsPaymentList -> <<Asc("due_date"), Asc("sequence")>>
      [] view = "StockListView" -> <<Asc("brand")>>
      [] OTHER -> <<Desc("created_at")>>

InOrder(l, order) ==
    \A i, j \in 1..Len(l) : i < j => RowCmp(l[i], l[j], order) <= 0

\* C7: the list holds the rows of the filtered set, each once; with a
\* configured sort key it is in the order of the key's attribute, descending
\* for order "desc" and ascending for any other order; with any other key it
\* is in the default order.
C7_SortRule ==
    listed.served
    => LET l == listed.object_list
       IN /\ {l[i] : i \in 1..Len(l)} = listed.afterFilters
          /\ Len(l) = Cardinality(listed.afterFilters)
          /\ IF GET.sort \in DOMAIN sort_fields(view)
             THEN LET field == sort_fields(view)[GET.sort]
                  IN \A i, j \in 1..Len(l) :
                        i < j => IF GET.order = "desc"
                                 THEN ValueCmp(field, l[i][field], l[j][field]) >= 0
                                 ELSE ValueCmp(field, l[i][field], l[j][field]) <= 0
             ELSE InOrder(l, DefaultOrdering)

\* Motors sorted by price, descending, the dearer one first.
C7_Witness ==
    /\ listed.served /\ view = "MotorListView"
    /\ GET.sort = "price" /\ GET.order = "desc"
    /\ Len(listed.object_list) = 2
    /\ listed.object_list[1].purchase_price > listed.object_list[2].purchase_price

(* ----------------------------------------------------------- summary claims *)
RECURSIVE AmountsUpTo(_)
AmountsUpTo(k) ==
    IF k = 0 THEN 0
    ELSE AmountsUpTo(k - 1)
         + (LET x == CHOOSE y \in sumInput : y.id = k IN x.total_amount)

\* C8: the three totals add up to the sum of all amounts of the set, the three
\* counts to its size, and the total of a status no schedule has is 0.
C8_TotalsPartition ==
    summarised # <<>>
    => LET s == summarised[1]
       IN /\ s.due_total + s.overdue_total + s.paid_total
                = AmountsUpTo(Cardinality(sumInput))
          /\ s.due_count + s.overdue_count + s.paid_count = Cardinality(sumInput)
          /\ (\A x \in sumInput : x.status # "due") => s.due_total = 0
          /\ (\A x \in sumInput : x.status # "overdue") => s.overdue_total = 0
          /\ (\A x \in sumInput : x.status # "paid") => s.paid_total = 0

\* A set with schedules of all three statuses was summarised.
C8_Witness ==
    /\ summarised # <<>>
    /\ summarised[1].due_total > 0
    /\ summarised[1].overdue_total > 0
    /\ summarised[1].paid_total > 0

\* C9: the collection rate (in hundredths of a percent) lies in [0, 100], and
\* is 0 when the set is empty or its totals add up to 0.
C9_RateInRange ==
    summarised # <<>>
    => LET s == summarised[1]
       IN /\ 0 <= s.collection_rate /\ s.collection_rate <= 10000
          /\ sumInput = {} => s.collection_rate = 0
          /\ s.due_total + s.overdue_total + s.paid_total = 0 => s.collection_rate = 0

\* A set that is not empty and whose amounts are all 0 was summarised.
C9_Witness ==
    /\ summarised # <<>>
    /\ Cardinality(sumInput) = 2
    /\ summarised[1].due_total + summarised[1].overdue_total
          + summarised[1].paid_total = 0
    /\ summarised[1].collection_rate = 0

\* The sum of the amounts of the schedules of one status, schedule by schedule.
RECURSIVE StatusAmountsUpTo(_, _)
StatusAmountsUpTo(k, status) ==
    IF k = 0 THEN 0
    ELSE StatusAmountsUpTo(k - 1, status)
         + (LET x == CHOOSE y \in sumInput : y.id = k
            IN IF x.status = status THEN x.total_amount ELSE 0)

Abs(n) == IF n < 0 THEN 0 - n ELSE n

\* The schedules of the example: 100 PAID, 50 DUE, 50 OVERDUE, in cents.
C15_Example ==
    {[id |-> 1, total_amount |-> 10000, status |-> "paid"],
     [id |-> 2, total_amount |-> 5000, status |-> "due"],
     [id |-> 3, total_amount |-> 5000, status |-> "overdue"]}

\* C15: when the three totals add up to a positive amount, the collection rate
\* is paid_total / (due_total + overdue_total + paid_total) x 100 rounded to two
\* decimals (no value with two decimals is nearer), the pending amount is
\* due_total + overdue_total and the total collected is paid_total; amounts 100
\* PAID, 50 DUE and 50 OVERDUE give the rate 50.00.
C15_RateFormula ==
    /\ summarised # <<>>
       => LET s == summarised[1]
              n == Cardinality(sumInput)
              due == StatusAmountsUpTo(n, "due")
              overdue == StatusAmountsUpTo(n, "overdue")
              paid == StatusAmountsUpTo(n, "paid")
              denominator == due + overdue + paid
          IN denominator > 0
             => /\ 2 * Abs(s.collection_rate * denominator - paid * 10000)
                      <= denominator
                /\ s.pending_amount = due + overdue
                /\ s.total_collected = paid
    /\ LET e == get_summary(C15_Example)
       IN /\ e.due_total = 5000 /\ e.overdue_total = 5000 /\ e.paid_total = 10000
          /\ e.collection_rate = 5000

\* Two of three units are paid: the rate is rounded up to 66.67.
C15_Witness ==
    /\ summarised # <<>>
    /\ summarised[1].paid_total = 2
    /\ summarised[1].due_total + summarised[1].overdue_total = 1
    /\ summarised[1].collection_rate = 6667

\* C10: in a list request the overdue refresh comes first: the set the summary
\* aggregates holds no schedule that is DUE with a due date before the
\* reference date, each such stored schedule has become OVERDUE, and the
\* schedules due on or after the reference date or PAID are stored as before.
C10_RefreshBeforeAggregate ==
    [][(IsPaymentList /\ listed'.served /\ listed'.reference_date = today)
       => /\ \A x \in listed'.afterFilters :
                ~(x.status = "due" /\ x.due_date < listed'.reference_date)
          /\ listed'.summary = get_summary(listed'.afterFilters)
          /\ \A x \in db :
                IF x.status = "due" /\ x.due_date < today
                THEN [x EXCEPT !.status = "overdue"] \in db' /\ x \notin db'
                ELSE x \in db']_vars

\* Schedule 1, DUE on day 1, is listed as OVERDUE on day 2.
C10_Witness ==
    /\ IsPaymentList /\ listed.served /\ listed.reference_date = 2
    /\ \E x \in listed.afterFilters : x.id = 1 /\ x.status = "overdue"

(* ---------------------------------------------------------- payment claims *)
\* C11: the overdue refresh is idempotent: run again with the same reference
\* date it changes no record, so a list or search request that follows
\* another one of the same day leaves every stored status as it is.
C11_RefreshIdempotent ==
    [][/\ mark_overdue(mark_overdue(db, today), today) = mark_overdue(db, today)
       /\ refreshes >= 1 => db' = db]_vars

\* On day 2 the refresh has marked schedules of the large table as OVERDUE,
\* and a second request of that day has run it again.
C11_Witness ==
    /\ today = 2 /\ refreshes = 2
    /\ Cardinality(db) > SearchLimit
    /\ \E x \in db : x.status = "overdue" /\ x.due_date = 1

\* C13: in every response of the JSON search count is the length of results
\* and results has at most 50 entries; a request that fails on the way is
\* answered with status 400, no results and count 0, and no response is an
\* exception that left the handler (status 200 or 400 only).
C13_SearchResponse ==
    json.served
    => /\ json.count = Len(json.results)
       /\ Len(json.results) <= 50
       /\ json.status \in {200, 400}
       /\ json.fault # "none"
             => json.status = 400 /\ json.results = <<>> /\ json.count = 0
       /\ json.fault = "none" => json.status = 200 /\ ~json.error

\* The search of the large table returned the first 50 schedules without the
\* one whose loan has no motor.
C13_Witness ==
    /\ json.served /\ json.status = 200
    /\ Cardinality(db) > 50
    /\ json.count = 49
    /\ \A i \in 1..Len(json.results) : json.results[i].motor # None

\* Two requests with the same parameters but for the page.
SameButPage(g, h) == [g EXCEPT !.page = ""] = [h EXCEPT !.page = ""]

\* C17: the summary of the payment schedule list is that of the whole
\* filtered set, whatever page is shown: with the records and the search,
\* status and sort parameters as they were, a request for another page gives
\* the same summary; the page shown holds at most 25 schedules.
C17_SummaryOverAllPages ==
    [][(IsPaymentList /\ listed'.served)
       => /\ listed'.summary = get_summary(listed'.afterFilters)
          /\ listed'.summary.due_count + listed'.summary.overdue_count
                + listed'.summary.paid_count = Cardinality(listed'.afterFilters)
          /\ Len(listed'.page_obj.object_list) <= 25
          /\ (listed.served /\ db' = db /\ SameButPage(GET, GET'))
                => listed'.summary = listed.summary]_vars

\* The third page of the large table shows two schedules and the summary
\* counts all 52.
C17_Witness ==
    /\ IsPaymentList /\ listed.served
    /\ GET.page = "3" /\ listed.page_obj.number = 3
    /\ Len(listed.page_obj.object_list) = 2
    /\ listed.summary.due_count + listed.summary.overdue_count
          + listed.summary.paid_count = 52

(* ------------------------------------------------------------- chart claims *)
\* The month of a date, as a count of months.
MonthIndex(date) == date.year * 12 + date.month

\* C12: for every "now" the chart has 6 buckets that are 6 consecutive,
\* pairwise distinct calendar months ending at the month of "now", oldest
\* first, each from the first to the last day of its month.
C12_SixConsecutiveMonths ==
    chart_data # <<>>
    => LET b == chart_data[1].buckets
       IN /\ Len(b) = 6
          /\ Len(chart_data[1].months_data) = 6
          /\ Len(chart_data[1].collection_rates) = 6
          /\ MonthIndex(b[6].month_start) = MonthIndex(now)
          /\ \A k \in 1..5 :
                MonthIndex(b[k].month_start) + 1 = MonthIndex(b[k + 1].month_start)
          /\ \A k \in 1..6 :
                /\ b[k].month_start.day = 1
                /\ MonthIndex(b[k].month_end) = MonthIndex(b[k].month_start)
                /\ b[k].month_end.day
                      = DaysInMonth(b[k].month_start.year, b[k].month_start.month)

\* Every bucket is a whole calendar month and the last one holds "now".
ChartBucketsAreMonths ==
    chart_data # <<>>
    => LET b == chart_data[1].buckets
       IN /\ MonthIndex(b[6].month_start) = MonthIndex(now)
          /\ \A k \in 1..6 :
                /\ b[k].month_start.day = 1
                /\ MonthIndex(b[k].month_end) = MonthIndex(b[k].month_start)
                /\ b[k].month_end.day
                      = DaysInMonth(b[k].month_start.year, b[k].month_start.month)

(* -------------------------------------------------------------- link claims *)
\* The keys build_query_string reads from the request.
BaseKeys ==
    <<<<"q">>, <<"sort">>, <<"order">>>>
    \o [i \in 1..Len(filter_fields(urlView)) |-> <<filter_fields(urlView)[i]>>]

\* C14: the query string holds the q, sort, order and filter-field parameters
\* of the request, each with the value of its override when there is one, and
\* the overrides of other names; a parameter whose value comes out empty is
\* left out (an empty override removes the parameter); with no parameter left
\* the result is the empty string, and a leading "?" is there otherwise.
C14_QueryStringRule ==
    built # <<>>
    => LET o == built[1].overrides
           url == built[1].url
           Overridden(k) == \E i \in 1..Len(o) : o[i].k = k
           Resulting(k) ==
               IF Overridden(k) THEN o[CHOOSE i \in 1..Len(o) : o[i].k = k].v
               ELSE QueryGet(QUERY, k, <<>>)
           IsNew(k) == \A i \in 1..Len(BaseKeys) : BaseKeys[i] # k
           keys == BaseKeys \o SelectSeq([i \in 1..Len(o) |-> o[i].k], IsNew)
           Remains(k) == Resulting(k) # <<>>
           kept == SelectSeq(keys, Remains)
       IN IF kept = <<>> THEN url = <<>>
          ELSE /\ Head(url) = "?"
               /\ Tail(url)
                     = JoinParams([i \in 1..Len(kept) |->
                                     Param(kept[i], Resulting(kept[i]))])

\* The sort of the request is replaced, its empty q is removed and its type
\* is kept.
C14_Witness ==
    /\ built # <<>>
    /\ built[1].overrides = <<Param(<<"sort">>, <<"price">>)>>
    /\ QUERY = <<Param(<<"q">>, <<>>), Param(<<"sort">>, <<"name">>),
                 Param(<<"type">>, <<"s">>)>>
    /\ built[1].url = <<"?", "sort", "=", "price", "&", "type", "=", "s">>

\* What the link of column c asks for when it is followed.
SortLinkRule(c) ==
    LET followed == QueryDict(sort_urls[1][c])
        current_sort == QueryGet(QUERY, <<"sort">>, <<>>)
        current_order == QueryGet(QUERY, <<"order">>, <<"asc">>)
    IN /\ QueryGet(followed, <<"sort">>, <<>>) = <<c>>
       /\ QueryGet(followed, <<"order">>, <<>>)
             = (IF current_sort = <<c>> /\ current_order = <<"asc">>
                THEN <<"desc">> ELSE <<"asc">>)
       /\ \A i \in 1..Len(QUERY) :
             LET k == QUERY[i].k
             IN (k \notin {<<"sort">>, <<"order">>} /\ QueryGet(QUERY, k, <<>>) # <<>>)
                => QueryGet(followed, k, <<>>) = QueryGet(QUERY, k, <<>>)

\* C16: the link of a column asks for order "desc" exactly when the column is
\* the current sort key and the current order is "asc", and for "asc" in every
\* other case, so that following it again and again alternates; every other
\* parameter of the request with a non-empty value is carried over unchanged.
C16_SortLinkToggle ==
    sort_urls # <<>> => \A c \in DOMAIN sort_fields(urlView) : SortLinkRule(c)

\* A request that names no parameter twice and has no "&" or "=" in a value.
PlainQuery ==
    /\ \A i, j \in 1..Len(QUERY) : QUERY[i].k = QUERY[j].k => i = j
    /\ \A i \in 1..Len(QUERY) :
          \A j \in 1..Len(QUERY[i].v) : QUERY[i].v[j] \notin {"&", "="}

\* The links of such requests follow the rule of C16.
SortLinksOfPlainRequests ==
    (sort_urls # <<>> /\ PlainQuery)
    => \A c \in DOMAIN sort_fields(urlView) : SortLinkRule(c)

====
